---- MODULE Spec2Model ----
(***************************************************************************)
(* A model of the instrumentation core of trinetri_auto:                   *)
(*   - the identity context of _ids.py (a ContextVar holding the          *)
(*     correlation id, and the agent/step id generators);                  *)
(*   - the span registry of _framework/langgraph.py (TrinetriLGCallback);  *)
(*   - the evaluation gate of eval.py (score_with);                       *)
(*   - the method wrapper of agent.py (instrument_agent);                  *)
(*   - the import-time patching of _instrument.py.                         *)
(* Scores and thresholds are counted in thousandths (0.82 is 820).         *)
(***************************************************************************)
EXTENDS Integers, Sequences, FiniteSets, TLC

\* ------------------------------------------------------------- bounds
\* Execution contexts that may exist at once (the root one included).
MaxCtx == 3
\* uuid.uuid4() draws in one behaviour.
MaxUuid == 2
\* Spans the callback registry opens in one behaviour.
MaxSpans == 2
\* Calls of a wrapped function, or of a patched graph, in one behaviour.
MaxCalls == 2
\* Threads that deliver end and error events to one callback object.
MaxThreads == 2
\* Identifiers generated as text in one behaviour.
MaxIds == 3
\* Applications of instrument_agent to one class.
MaxLayers == 2
\* Tasks put on the evaluation queue in one behaviour.
MaxTasks == 2
\* Consumers of one evaluation queue.
MaxWorkers == 2

\* ---------------------------------------------------------- constants
\* _mock_deepeval_score(): 0.82
FallbackScore == 820
\* score_with(metric="g-eval", threshold=0.8)
DefaultThreshold == 800
\* input_text[:1000], str(result)[:1000]
InputCap == 1000

VARIABLES
    \* ---- _ids.py: one ContextVar, seen from each execution context
    cur,        \* cur[c]: _correlation_id_var.get() in context c
    kind,       \* kind[c]: "root", "task" (asyncio task) or "thread"
    initial,    \* initial[c]: the id c observed when it started
    atSpawn,    \* atSpawn[c]: the spawning context's id at spawn time
    ensured,    \* ensured[c]: what ensure_correlation_id() last returned in c
                \*             since the last new_correlation_id() there
    first,      \* first[c]: the first id an ensure_correlation_id() or
                \*           new_correlation_id() call in c returned (or None)
    renewed,    \* renewed[c]: new_correlation_id() ran in c after first[c]
    last,       \* the last identity operation: [ctx, op, ret]
    uuidCount,  \* uuid.uuid4() draws so far; draw n yields the value n
    \* ---- _framework/langgraph.py: TrinetriLGCallback
    activeSpans,\* self._active_spans: key -> index into spans
    spans,      \* every span the callback's tracer has started
    ev,         \* the last callback event delivered and what it did
    thr,        \* thr[t]: where thread t is inside an end or error handler
    \* ---- eval.py: one call of a function wrapped by score_with
    gpc,        \* "idle" | "done"
    gcalls,     \* calls made so far
    gcall,      \* the call: arguments, configuration, what func and scorer do
    gout,       \* what the caller of the wrapper sees
    gscore,     \* the score the scoring step produced, if it produced one
    gscored,    \* the input text the scoring step was given, if it ran
    gspans,     \* the evaluation spans the call emitted
    gtrace,     \* the steps the call took, in order
    \* ---- agent.py: calls of a method wrapped by instrument_agent
    acount,     \* calls made so far
    aspans,     \* one record per call: the call, its span, what the caller saw
    \* ---- _instrument.py: the import of the module and get_patch_status()
    imported,   \* "no" | "ok" | "error": how the import of the module went
    attempts,   \* the patchers called, in order, each with what it did
    patched,    \* the list `patched` of _apply_auto_patching
    failed,     \* the list `failed` of _apply_auto_patching
    warned,     \* the components a warning was issued for
    pstatus,    \* what get_patch_status() last returned (empty before)
    layers,     \* how many times instrument_agent was applied to the class
    \* ---- _ids.py: the text of the identifiers
    made,       \* the identifiers generated, each with the uuid4 it came from
    \* ---- _framework/langgraph.py: graphs patched by instrument_langgraph
    configs,    \* configs[c]: the callbacks list of the caller's config c
    ginvs,      \* one record per invocation of a patched graph
    \* ---- worker.py: one EvaluationQueue and its consumers
    running,    \* self._running
    wq,         \* self._queue: the tasks waiting, oldest first
    unfinished, \* the queue's count of unfinished tasks
    putCount,   \* tasks put so far; task n is the n-th put
    wpc,        \* wpc[w]: where consumer w is in consume()
    wtask,      \* wtask[w]: the task consumer w holds (0: none)
    retrieved,  \* the tasks retrieved, in order, each with its consumer
    handled,    \* the tasks whose processing ended, with outcome and consumer
    acked,      \* acked[n]: task_done() calls made for task n
    stopCalled  \* stop() has been called on the queue

idVars   == <<cur, kind, initial, atSpawn, ensured, first, renewed, last,
             uuidCount>>
regVars  == <<activeSpans, spans, ev, thr>>
gateVars == <<gpc, gcalls, gcall, gout, gscore, gscored, gspans, gtrace>>
agentVars == <<acount, aspans, layers>>
fmtVars   == <<made>>
graphVars == <<configs, ginvs>>
workVars  == <<running, wq, unfinished, putCount, wpc, wtask, retrieved,
               handled, acked, stopCalled>>
restVars  == <<fmtVars, graphVars, workVars>>
patchVars == <<imported, attempts, patched, failed, warned, pstatus>>
vars     == <<idVars, regVars, gateVars, agentVars, patchVars, restVars>>

\* ---------------------------------------------------------------- _ids.py
\* An identifier value: which generator made it and which uuid4 draw it holds.
\* None is the ContextVar's default.
None == [k |-> "none", n |-> 0]
Cid(n) == [k |-> "cid", n |-> n]

\* Faulty variant: a generator that hands out its previous value again.
uuid4_Repeats == IF uuidCount = 0 THEN 1 ELSE uuidCount

\* str(uuid.uuid4()): a fresh value per draw.
uuid4 == uuidCount + 1

CanDraw(k) == uuidCount + k <= MaxUuid

Ctxs == DOMAIN cur

NoOp == [ctx |-> 0, op |-> "none", ret |-> None]

\* f"agt-{uuid.uuid4().hex[:12]}"
AgentIdOf(n) == [k |-> "agt", n |-> n]
\* f"stp-{uuid.uuid4().hex[:12]}"
StepIdOf(n) == [k |-> "stp", n |-> n]

\* Faulty variant: one process-wide cell instead of a per-context variable.
ContextSet_Global(c, v) == [x \in DOMAIN cur |-> v]

\* _correlation_id_var.set(v) in context c: the other contexts keep theirs.
ContextSet(c, v) == [cur EXCEPT ![c] = v]

\* Faulty variant: an id that is current is kept and returned.
new_correlation_id_KeepsCurrent(c) ==
    LET v == IF cur[c] = None THEN Cid(uuid4) ELSE cur[c] IN
    /\ CanDraw(1)
    /\ cur' = ContextSet(c, v)
    /\ uuidCount' = uuidCount + 1
    /\ ensured' = [ensured EXCEPT ![c] = None]
    /\ first' = [first EXCEPT ![c] = IF @ = None THEN v ELSE @]
    /\ renewed' = [renewed EXCEPT ![c] = @ \/ first[c] # None]
    /\ last' = [ctx |-> c, op |-> "new", ret |-> v]
    /\ UNCHANGED <<kind, initial, atSpawn>>
    /\ UNCHANGED <<regVars, gateVars, agentVars, patchVars, restVars>>

new_correlation_id(c) ==
    /\ CanDraw(1)
    /\ cur' = ContextSet(c, Cid(uuid4))
    /\ uuidCount' = uuidCount + 1
    /\ ensured' = [ensured EXCEPT ![c] = None]
    /\ first' = [first EXCEPT ![c] = IF @ = None THEN Cid(uuid4) ELSE @]
    /\ renewed' = [renewed EXCEPT ![c] = @ \/ first[c] # None]
    /\ last' = [ctx |-> c, op |-> "new", ret |-> Cid(uuid4)]
    /\ UNCHANGED <<kind, initial, atSpawn>>
    /\ UNCHANGED <<regVars, gateVars, agentVars, patchVars, restVars>>

\* Faulty variant: the variable's default is returned, not its value.
get_correlation_id_Default(c) ==
    /\ last' = [ctx |-> c, op |-> "get", ret |-> None]
    /\ UNCHANGED <<cur, kind, initial, atSpawn, ensured, first, renewed,
                   uuidCount>>
    /\ UNCHANGED <<regVars, gateVars, agentVars, patchVars, restVars>>

\* Faulty variant: reading the id installs one when none is current.
get_correlation_id_Installs(c) ==
    /\ cur[c] = None => CanDraw(1)
    /\ cur' = IF cur[c] = None THEN ContextSet(c, Cid(uuid4)) ELSE cur
    /\ uuidCount' = IF cur[c] = None THEN uuidCount + 1 ELSE uuidCount
    /\ last' = [ctx |-> c, op |-> "get",
                ret |-> IF cur[c] = None THEN Cid(uuid4) ELSE cur[c]]
    /\ UNCHANGED <<kind, initial, atSpawn, ensured, first, renewed>>
    /\ UNCHANGED <<regVars, gateVars, agentVars, patchVars, restVars>>

get_correlation_id(c) ==
    /\ last' = [ctx |-> c, op |-> "get", ret |-> cur[c]]
    /\ UNCHANGED <<cur, kind, initial, atSpawn, ensured, first, renewed,
                   uuidCount>>
    /\ UNCHANGED <<regVars, gateVars, agentVars, patchVars, restVars>>

\* ensure_correlation_id() as a function of the context: the id it returns and
\* whether it had to create it.
\* Faulty variant: a new id on every call, whether or not one is current.
EnsureCreates_Always(c) == TRUE

EnsureCreates(c) == cur[c] = None
EnsureId(c) == IF EnsureCreates(c) THEN Cid(uuid4) ELSE cur[c]

ensure_correlation_id(c) ==
    /\ EnsureCreates(c) => CanDraw(1)
    /\ cur' = IF EnsureCreates(c) THEN ContextSet(c, EnsureId(c)) ELSE cur
    /\ uuidCount' = IF EnsureCreates(c) THEN uuidCount + 1 ELSE uuidCount
    /\ ensured' = [ensured EXCEPT ![c] = EnsureId(c)]
    /\ first' = [first EXCEPT ![c] = IF @ = None THEN EnsureId(c) ELSE @]
    /\ last' = [ctx |-> c, op |-> "ensure", ret |-> EnsureId(c)]
    /\ UNCHANGED <<kind, initial, atSpawn, renewed>>
    /\ UNCHANGED <<regVars, gateVars, agentVars, patchVars, restVars>>

new_agent_id(c) ==
    /\ CanDraw(1)
    /\ uuidCount' = uuidCount + 1
    /\ last' = [ctx |-> c, op |-> "agent", ret |-> AgentIdOf(uuid4)]
    /\ UNCHANGED <<cur, kind, initial, atSpawn, ensured, first, renewed>>
    /\ UNCHANGED <<regVars, gateVars, agentVars, patchVars, restVars>>

new_step_id(c) ==
    /\ CanDraw(1)
    /\ uuidCount' = uuidCount + 1
    /\ last' = [ctx |-> c, op |-> "step", ret |-> StepIdOf(uuid4)]
    /\ UNCHANGED <<cur, kind, initial, atSpawn, ensured, first, renewed>>
    /\ UNCHANGED <<regVars, gateVars, agentVars, patchVars, restVars>>

\* What a new execution context sees in _correlation_id_var when it starts.
\* An asyncio task runs in a copy of the context that created it; a new
\* thread starts with an empty context, where the variable has its default.
TaskStartId(p) == cur[p]
ThreadStartId(p) == None

Spawn(p, k, v) ==
    LET c == Cardinality(Ctxs) + 1 IN
    /\ Cardinality(Ctxs) < MaxCtx
    /\ cur' = [x \in Ctxs \cup {c} |-> IF x = c THEN v ELSE cur[x]]
    /\ kind' = [x \in Ctxs \cup {c} |-> IF x = c THEN k ELSE kind[x]]
    /\ initial' = [x \in Ctxs \cup {c} |-> IF x = c THEN v ELSE initial[x]]
    /\ atSpawn' = [x \in Ctxs \cup {c} |-> IF x = c THEN cur[p] ELSE atSpawn[x]]
    /\ ensured' = [x \in Ctxs \cup {c} |-> IF x = c THEN None ELSE ensured[x]]
    /\ first' = [x \in Ctxs \cup {c} |-> IF x = c THEN None ELSE first[x]]
    /\ renewed' = [x \in Ctxs \cup {c} |-> IF x = c THEN FALSE ELSE renewed[x]]
    /\ last' = [ctx |-> p, op |-> "spawn", ret |-> None]
    /\ UNCHANGED uuidCount
    /\ UNCHANGED <<regVars, gateVars, agentVars, patchVars, restVars>>

spawn_task(p) == Spawn(p, "task", TaskStartId(p))
spawn_thread(p) == Spawn(p, "thread", ThreadStartId(p))

\* ------------------------------------------------ _framework/langgraph.py
\* A run identifier as a Python value: its type and its text.
NoneKey == [t |-> "none", v |-> "None"]
\* kwargs without a 'run_id' entry.
Absent == [t |-> "absent", v |-> ""]
\* The values a framework may pass as run_id (UUIDs in LangChain; the empty
\* string and None are values too).
RunIds ==
    { [t |-> "uuid", v |-> "u1"], [t |-> "uuid", v |-> "u2"],
      [t |-> "str", v |-> ""], NoneKey }
RunIdArgs == RunIds \cup {Absent}
\* id(inputs): the address of the payload object of a start event.
Addrs == {"a1"}
\* The serialized descriptions a start event carries: one with a 'name'.
Serialized == {"named"}
Outputs == {"out1"}
Errors == {[type |-> "ValueError", msg |-> "boom"]}

\* bool(run_id)
Truthy(k) ==
    CASE k.t = "none" -> FALSE
      [] k.t = "absent" -> FALSE
      [] k.t = "int" -> k.v # "0"
      [] k.t = "str" -> k.v # ""
      [] OTHER -> TRUE

\* str(id(inputs))
StrOfId(addr) == [t |-> "str", v |-> addr]

\* kwargs.get('run_id', default)
KwargsGet(rid, default) == IF rid = Absent THEN default ELSE rid

\* serialized.get('name', 'unknown')
SerializedName(ser) == IF ser = "named" THEN "node" ELSE "unknown"

\* json.dumps(x, default=str)
JsonDumps(x) == "{" \o x \o "}"

\* The context the callbacks run in.
RegCtx == 1

NoEvent ==
    [type |-> "none", flavour |-> "", rid |-> Absent, key |-> NoneKey,
     payload |-> "", hadEntry |-> FALSE, opened |-> 0, ended |-> {},
     raised |-> ""]

\* tracer.start_span(name, attributes): a span that is recording. key notes
\* the registry key the handler goes on to store it under.
NewSpan(name, spanType, attrs, key) ==
    [name |-> name, type |-> spanType, key |-> key, corr |-> cur[RegCtx],
     step |-> StepIdOf(uuid4), attrs |-> attrs,
     status |-> "UNSET", msg |-> "", sets |-> 0, ends |-> 0]

\* span.set_attribute(k, v)
SetAttribute(sp, k, v) ==
    [sp EXCEPT !.attrs =
        [x \in DOMAIN sp.attrs \cup {k} |-> IF x = k THEN v ELSE sp.attrs[x]]]
\* span.set_status(Status(code, msg))
SetStatus(sp, code, msg) ==
    [sp EXCEPT !.status = code, !.msg = msg, !.sets = sp.sets + 1]
\* span.end()
EndSpan(sp) == [sp EXCEPT !.ends = sp.ends + 1]

\* self._active_spans[key] = span
MapPut(m, key, i) ==
    [k \in DOMAIN m \cup {key} |-> IF k = key THEN i ELSE m[k]]
\* Faulty variant: the span is read with get() and its entry is left in the map.
MapPop_KeepsEntry(m, key) == m

\* self._active_spans.pop(key): the map without key
MapPop(m, key) == [k \in DOMAIN m \ {key} |-> m[k]]

\* `if run_id and run_id in self._active_spans`
Found(run_id) == Truthy(run_id) /\ run_id \in DOMAIN activeSpans

\* The spans whose end() was called in this step.
EndedNow == {i \in DOMAIN spans : spans'[i].ends # spans[i].ends}

\* The key a start event stores its span under.
StartKey(rid, addr) == KwargsGet(rid, StrOfId(addr))

\* What the last event was and what it did, for a start event.
Started(flavour, rid, addr, had, i, ended) ==
    [type |-> "start", flavour |-> flavour, rid |-> rid,
     key |-> StartKey(rid, addr), payload |-> addr, hadEntry |-> had,
     opened |-> i, ended |-> ended, raised |-> ""]

\* What the last event was and what it did, for an end or error event.
Finished(type, flavour, rid, payload, had, ended) ==
    [type |-> type, flavour |-> flavour, rid |-> rid,
     key |-> KwargsGet(rid, NoneKey), payload |-> payload, hadEntry |-> had,
     opened |-> 0, ended |-> ended, raised |-> ""]

\* Faulty variant: a start event for a key that has an open entry is refused
\* with an exception instead of replacing the entry.
on_chain_start_RejectsOpenKey(ser, inputs, rid, addr) ==
    LET run_id == KwargsGet(rid, StrOfId(addr))
        span == NewSpan("lg.chain." \o SerializedName(ser), "framework",
                        [a \in {"lg.inputs"} |-> JsonDumps(inputs)], run_id)
        had == run_id \in DOMAIN activeSpans
    IN
    /\ Len(spans) < MaxSpans
    /\ spans' = Append(spans, span)
    /\ uuidCount' = uuidCount + 1
    /\ activeSpans' = IF had THEN activeSpans
                      ELSE MapPut(activeSpans, run_id, Len(spans) + 1)
    /\ ev' = [Started("chain", rid, addr, had, Len(spans) + 1, EndedNow)
              EXCEPT !.raised = IF had THEN "KeyError" ELSE ""]
    /\ UNCHANGED <<cur, kind, initial, atSpawn, ensured, first, renewed, last>>
    /\ UNCHANGED <<thr, gateVars, agentVars, patchVars, restVars>>

on_chain_start(ser, inputs, rid, addr) ==
    LET run_id == KwargsGet(rid, StrOfId(addr))
        span == NewSpan("lg.chain." \o SerializedName(ser), "framework",
                        [a \in {"lg.inputs"} |-> JsonDumps(inputs)], run_id)
    IN
    /\ Len(spans) < MaxSpans
    /\ spans' = Append(spans, span)
    /\ uuidCount' = uuidCount + 1
    /\ activeSpans' = MapPut(activeSpans, run_id, Len(spans) + 1)
    /\ ev' = Started("chain", rid, addr, run_id \in DOMAIN activeSpans,
                     Len(spans) + 1, EndedNow)
    /\ UNCHANGED <<cur, kind, initial, atSpawn, ensured, first, renewed, last>>
    /\ UNCHANGED <<thr, gateVars, agentVars, patchVars, restVars>>

\* The body of on_chain_end / on_tool_end once the span is popped.
Complete(sp, attr, value) ==
    EndSpan(SetStatus(SetAttribute(sp, attr, value), "OK", ""))

\* The body of on_chain_error / on_tool_error once the span is popped.
Fail(sp, error) ==
    EndSpan(SetAttribute(SetAttribute(SetStatus(sp, "ERROR", error.msg),
                                      "error.type", error.type),
                         "error.message", error.msg))

\* Faulty variant: pop() without the membership test, which raises on an unknown key.
on_chain_end_PopUnchecked(outputs, rid) ==
    LET run_id == KwargsGet(rid, NoneKey) IN
    /\ IF run_id \in DOMAIN activeSpans
       THEN /\ activeSpans' = MapPop(activeSpans, run_id)
            /\ spans' = [spans EXCEPT ![activeSpans[run_id]] =
                            Complete(@, "lg.outputs", JsonDumps(outputs))]
       ELSE UNCHANGED <<activeSpans, spans>>
    /\ ev' = [Finished("end", "chain", rid, JsonDumps(outputs),
                       run_id \in DOMAIN activeSpans, EndedNow)
              EXCEPT !.raised = IF run_id \in DOMAIN activeSpans
                                THEN "" ELSE "KeyError"]
    /\ UNCHANGED idVars
    /\ UNCHANGED <<thr, gateVars, agentVars, patchVars, restVars>>

on_chain_end(outputs, rid) ==
    LET run_id == KwargsGet(rid, NoneKey) IN
    /\ IF Found(run_id)
       THEN /\ activeSpans' = MapPop(activeSpans, run_id)
            /\ spans' = [spans EXCEPT ![activeSpans[run_id]] =
                            Complete(@, "lg.outputs", JsonDumps(outputs))]
       ELSE UNCHANGED <<activeSpans, spans>>
    /\ ev' = Finished("end", "chain", rid, JsonDumps(outputs),
                      run_id \in DOMAIN activeSpans, EndedNow)
    /\ UNCHANGED idVars
    /\ UNCHANGED <<thr, gateVars, agentVars, patchVars, restVars>>

on_chain_error(error, rid) ==
    LET run_id == KwargsGet(rid, NoneKey) IN
    /\ IF Found(run_id)
       THEN /\ activeSpans' = MapPop(activeSpans, run_id)
            /\ spans' = [spans EXCEPT ![activeSpans[run_id]] = Fail(@, error)]
       ELSE UNCHANGED <<activeSpans, spans>>
    /\ ev' = Finished("error", "chain", rid, error.msg,
                      run_id \in DOMAIN activeSpans, EndedNow)
    /\ UNCHANGED idVars
    /\ UNCHANGED <<thr, gateVars, agentVars, patchVars, restVars>>

on_tool_start(ser, input_str, rid, addr) ==
    LET run_id == KwargsGet(rid, StrOfId(addr))
        span == NewSpan("lg.tool." \o SerializedName(ser), "tool",
                        [a \in {"lg.tool.input"} |-> input_str], run_id)
    IN
    /\ Len(spans) < MaxSpans
    /\ spans' = Append(spans, span)
    /\ uuidCount' = uuidCount + 1
    /\ activeSpans' = MapPut(activeSpans, run_id, Len(spans) + 1)
    /\ ev' = Started("tool", rid, addr, run_id \in DOMAIN activeSpans,
                     Len(spans) + 1, EndedNow)
    /\ UNCHANGED <<cur, kind, initial, atSpawn, ensured, first, renewed, last>>
    /\ UNCHANGED <<thr, gateVars, agentVars, patchVars, restVars>>

on_tool_end(output, rid) ==
    LET run_id == KwargsGet(rid, NoneKey) IN
    /\ IF Found(run_id)
       THEN /\ activeSpans' = MapPop(activeSpans, run_id)
            /\ spans' = [spans EXCEPT ![activeSpans[run_id]] =
                            Complete(@, "lg.tool.output", output)]
       ELSE UNCHANGED <<activeSpans, spans>>
    /\ ev' = Finished("end", "tool", rid, output,
                      run_id \in DOMAIN activeSpans, EndedNow)
    /\ UNCHANGED idVars
    /\ UNCHANGED <<thr, gateVars, agentVars, patchVars, restVars>>

on_tool_error(error, rid) ==
    LET run_id == KwargsGet(rid, NoneKey) IN
    /\ IF Found(run_id)
       THEN /\ activeSpans' = MapPop(activeSpans, run_id)
            /\ spans' = [spans EXCEPT ![activeSpans[run_id]] = Fail(@, error)]
       ELSE UNCHANGED <<activeSpans, spans>>
    /\ ev' = Finished("error", "tool", rid, error.msg,
                      run_id \in DOMAIN activeSpans, EndedNow)
    /\ UNCHANGED idVars
    /\ UNCHANGED <<thr, gateVars, agentVars, patchVars, restVars>>

\* --- on_chain_end / on_chain_error called from several threads on one
\* callback object. The class holds no lock (__init__ creates the tracer and
\* a plain dict), so a thread may be preempted between the statements of a
\* handler: reading run_id, the membership test, the pop, and the calls on
\* the popped span. Each dict operation is atomic by itself.
Threads == 1..MaxThreads

NoError == [type |-> "", msg |-> ""]

\* A thread that is in no handler. target notes the span that was held under
\* run_id when the thread entered its handler (0: none).
ThreadIdle ==
    [pc |-> "idle", type |-> "none", run_id |-> NoneKey, payload |-> "",
     error |-> NoError, target |-> 0, span |-> 0, raised |-> ""]

\* run_id = kwargs.get('run_id')
handler_enter(t, type, payload, error, rid) ==
    LET run_id == KwargsGet(rid, NoneKey) IN
    /\ thr[t].pc = "idle"
    /\ thr' = [thr EXCEPT ![t] =
                  [pc |-> "test", type |-> type, run_id |-> run_id,
                   payload |-> payload, error |-> error,
                   target |-> IF Found(run_id) THEN activeSpans[run_id] ELSE 0,
                   span |-> 0, raised |-> ""]]
    /\ UNCHANGED <<activeSpans, spans, ev>>
    /\ UNCHANGED <<idVars, gateVars, agentVars, patchVars, restVars>>

\* if run_id and run_id in self._active_spans:
handler_test(t) ==
    /\ thr[t].pc = "test"
    /\ thr' = [thr EXCEPT ![t].pc =
                  IF Found(thr[t].run_id) THEN "pop" ELSE "done"]
    /\ UNCHANGED <<activeSpans, spans, ev>>
    /\ UNCHANGED <<idVars, gateVars, agentVars, patchVars, restVars>>

\* dict.pop(key) with no default: what it raises
PopRaises(m, key) == IF key \in DOMAIN m THEN "" ELSE "KeyError"

\* span = self._active_spans.pop(run_id)
handler_pop(t) ==
    LET run_id == thr[t].run_id IN
    /\ thr[t].pc = "pop"
    /\ IF PopRaises(activeSpans, run_id) = ""
       THEN /\ activeSpans' = MapPop(activeSpans, run_id)
            /\ thr' = [thr EXCEPT ![t].pc = "finish",
                                  ![t].span = activeSpans[run_id]]
       ELSE /\ thr' = [thr EXCEPT ![t].pc = "done",
                                  ![t].raised = PopRaises(activeSpans, run_id)]
            /\ UNCHANGED activeSpans
    /\ UNCHANGED <<spans, ev>>
    /\ UNCHANGED <<idVars, gateVars, agentVars, patchVars, restVars>>

\* The calls on the popped span: set_attribute, set_status, end.
handler_finish(t) ==
    /\ thr[t].pc = "finish"
    /\ spans' = [spans EXCEPT ![thr[t].span] =
                    IF thr[t].type = "end"
                    THEN Complete(@, "lg.outputs", thr[t].payload)
                    ELSE Fail(@, thr[t].error)]
    /\ thr' = [thr EXCEPT ![t].pc = "done"]
    /\ UNCHANGED <<activeSpans, ev>>
    /\ UNCHANGED <<idVars, gateVars, agentVars, patchVars, restVars>>

\* ---------------------------------------------------------------- eval.py
\* A Python value and its str(): None, a string, an int.
PyNone == [t |-> "none", v |-> "None"]
PyStr(x) == [t |-> "str", v |-> x]
PyInt(x) == [t |-> "int", v |-> x]
\* str(x)
Str(x) == x.v

\* A score as the scoring strategy hands it back: a number (in thousandths),
\* float('nan'), or a value that is no number (a str, None).
Num(n) == [t |-> "num", v |-> n]
NaN == [t |-> "nan", v |-> 0]
NotNumber == [t |-> "other", v |-> 0]
NoScore == [t |-> "unset", v |-> 0]

\* What the wrapped function does when called.
Returns(x) == [kind |-> "return", value |-> x, exc |-> ""]
\* An exception: its class, and whether the class derives from Exception.
Raises(e, isExc) ==
    [kind |-> IF isExc THEN "raise" ELSE "raiseBase", value |-> PyNone,
     exc |-> e]

FuncBehaviours ==
    { Returns(PyStr("reply")), Returns(PyStr("")), Returns(PyNone),
      Raises("ValueError", TRUE), Raises("KeyboardInterrupt", FALSE) }

\* The metric argument of score_with: a metric name, or a callable with or
\* without a __name__ (a plain function, a functools.partial).
MetricStr(name) == [callable |-> FALSE, text |-> name, hasName |-> FALSE]
MetricFn(name) == [callable |-> TRUE, text |-> name, hasName |-> TRUE]
MetricPartial == [callable |-> TRUE, text |-> "", hasName |-> FALSE]
Metrics ==
    { MetricStr("g-eval"), MetricStr("bleu"), MetricFn("my_metric"),
      MetricPartial }

\* What scoring does when reached: the callable (or GEval.measure) hands back
\* a score, raises an Exception, raises a BaseException, or deepeval cannot be
\* imported (named metrics only).
ScoreVals == {Num(0), Num(700), Num(800), Num(900), Num(1500), NaN, NotNumber}
Scoring(k, sc) == [kind |-> k, score |-> sc]
ScorerBehaviours(m) ==
    {Scoring("return", sc) : sc \in ScoreVals}
    \cup {Scoring("raise", NoScore), Scoring("raiseBase", NoScore)}
    \cup (IF m.callable THEN {} ELSE {Scoring("missing", NoScore)})

Thresholds == {500, DefaultThreshold, 900}

ArgLists == {<<>>, <<PyStr("pos")>>}
KwargSets ==
    { [k \in ks |-> IF k = "input" THEN PyStr("kw-input") ELSE PyStr("kw-query")]
      : ks \in SUBSET {"input", "query"} }

NoCall ==
    [args |-> <<>>, kwargs |-> [k \in {} |-> PyNone], func |-> Returns(PyNone),
     metric |-> MetricStr("g-eval"), threshold |-> DefaultThreshold,
     scorer |-> Scoring("missing", NoScore)]

\* A call: its arguments, what the wrapped function does, the configuration
\* of the gate and what scoring does.
Call(a, kw, f, m, th, sb) ==
    [args |-> a, kwargs |-> kw, func |-> f, metric |-> m, threshold |-> th,
     scorer |-> sb]

\* What the caller of the wrapper sees.
NoOutcome ==
    [kind |-> "none", value |-> PyNone, exc |-> "", score |-> NoScore,
     threshold |-> 0, metric |-> ""]
Returned(x) == [NoOutcome EXCEPT !.kind = "return", !.value = x]
Raised(e) == [NoOutcome EXCEPT !.kind = "raise", !.exc = e]
\* EvaluationError(score, threshold, metric)
EvaluationError(score, threshold, metric) ==
    [kind |-> "raise", value |-> PyNone, exc |-> "EvaluationError",
     score |-> score, threshold |-> threshold, metric |-> metric]

\* Faulty variant: a fallback score just under the default threshold.
_mock_deepeval_score_Low == Num(DefaultThreshold - 10)

\* _mock_deepeval_score()
_mock_deepeval_score == Num(FallbackScore)

\* Faulty variant: a keyword argument named input is preferred to a positional
\* argument.
InputText_KeywordFirst(args, kwargs) ==
    IF "input" \in DOMAIN kwargs THEN Str(kwargs["input"])
    ELSE IF Len(args) > 0 THEN Str(args[1])
    ELSE IF "query" \in DOMAIN kwargs THEN Str(kwargs["query"])
    ELSE ""

\* Input extraction: first positional argument, else 'input', else 'query'.
InputText(args, kwargs) ==
    IF Len(args) > 0 THEN Str(args[1])
    ELSE IF "input" \in DOMAIN kwargs THEN Str(kwargs["input"])
    ELSE IF "query" \in DOMAIN kwargs THEN Str(kwargs["query"])
    ELSE ""

\* text[:1000]
Truncate(text) ==
    IF Len(text) > InputCap THEN SubSeq(text, 1, InputCap) ELSE text

\* _compute_deepeval_score: [raised, score]. An ImportError or any Exception
\* gives the mock score; so does a metric other than "g-eval".
_compute_deepeval_score(metric, sb) ==
    CASE sb.kind = "missing" -> [raised |-> "", score |-> _mock_deepeval_score]
      [] sb.kind # "missing" /\ metric.text # "g-eval" ->
            [raised |-> "", score |-> _mock_deepeval_score]
      [] sb.kind = "return" /\ metric.text = "g-eval" ->
            [raised |-> "", score |-> sb.score]
      [] sb.kind = "raise" /\ metric.text = "g-eval" ->
            [raised |-> "", score |-> _mock_deepeval_score]
      [] OTHER -> [raised |-> "KeyboardInterrupt", score |-> NoScore]

\* Faulty variant: the scoring callable's exception is not caught.
ComputeScore_Propagates(metric, sb) ==
    IF metric.callable
    THEN CASE sb.kind = "return" -> [raised |-> "", score |-> sb.score]
           [] sb.kind = "raise" -> [raised |-> "ValueError", score |-> NoScore]
           [] OTHER -> [raised |-> "KeyboardInterrupt", score |-> NoScore]
    ELSE _compute_deepeval_score(metric, sb)

\* The scoring step of _emit_evaluation_span: [raised, score].
ComputeScore(metric, sb) ==
    IF metric.callable
    THEN CASE sb.kind = "return" -> [raised |-> "", score |-> sb.score]
           [] sb.kind = "raise" -> [raised |-> "", score |-> _mock_deepeval_score]
           [] OTHER -> [raised |-> "KeyboardInterrupt", score |-> NoScore]
    ELSE _compute_deepeval_score(metric, sb)

\* Faulty variant: the callable's __name__ is never read.
MetricName_NoName(metric) == IF metric.callable THEN "custom" ELSE metric.text

\* metric_name: getattr(metric, '__name__', 'custom') or the metric string.
MetricName(metric) ==
    IF metric.callable
    THEN (IF metric.hasName THEN metric.text ELSE "custom")
    ELSE metric.text

\* `score >= threshold` is a TypeError for a score that is no number.
Comparable(score) == score.t \in {"num", "nan"}

\* Faulty variant: a strict comparison.
EvalPass_Strict(score, threshold) == score.t = "num" /\ score.v > threshold

\* eval_pass = score >= threshold (False for nan).
EvalPass(score, threshold) == score.t = "num" /\ score.v >= threshold

\* The context the gated function is called in.
GateCtx == 1

\* The evaluation span as it is when the `with` block is left.
EvalSpan(call, score) ==
    [name |-> "eval:func",
     corr |-> EnsureId(GateCtx),
     step |-> StepIdOf(IF EnsureCreates(GateCtx) THEN uuid4 + 1 ELSE uuid4),
     metric |-> MetricName(call.metric),
     score |-> score,
     threshold |-> call.threshold,
     pass |-> EvalPass(score, call.threshold),
     input |-> Truncate(InputText(call.args, call.kwargs)),
     output |-> Truncate(Str(call.func.value)),
     duration |-> <<"start_time", "end_time">>,
     status |-> IF EvalPass(score, call.threshold) THEN "OK" ELSE "ERROR",
     ends |-> 1]

\* `if success and result is not None`; success is unbound when func raised
\* something that is not an Exception.
SuccessBound(call) == call.func.kind \in {"return", "raise"}
Evaluates(call) == call.func.kind = "return" /\ call.func.value # PyNone

\* _emit_evaluation_span(...): what it raises (or ""), the score, the spans
\* it emits and the steps it takes.
_emit_evaluation_span(call) ==
    LET sc == ComputeScore(call.metric, call.scorer) IN
    IF sc.raised # ""
    THEN [raised |-> Raised(sc.raised), score |-> NoScore, spans |-> <<>>,
          steps |-> <<"score">>]
    ELSE IF ~Comparable(sc.score)
    THEN [raised |-> Raised("TypeError"), score |-> sc.score, spans |-> <<>>,
          steps |-> <<"score", "compare">>]
    ELSE [raised |-> IF EvalPass(sc.score, call.threshold)
                     THEN NoOutcome
                     ELSE EvaluationError(sc.score, call.threshold,
                                          MetricName(call.metric)),
          score |-> sc.score,
          spans |-> <<EvalSpan(call, sc.score)>>,
          steps |-> <<"score", "compare", "span_start", "span_end">>
                    \o (IF EvalPass(sc.score, call.threshold)
                        THEN <<>> ELSE <<"raise">>)]

\* Faulty variant: the finally block evaluates without looking at success, so
\* a call whose function raised an Exception is scored and recorded too.
Wrapper_ScoresFailures(call) ==
    LET head == <<"start_time", "func", "end_time">>
        em == _emit_evaluation_span(call)
    IN
    IF ~SuccessBound(call)
    THEN [out |-> Raised("UnboundLocalError"), score |-> NoScore,
          spans |-> <<>>, steps |-> head]
    ELSE [out |-> IF em.raised.kind = "raise" THEN em.raised
                  ELSE IF call.func.kind = "raise" THEN Raised(call.func.exc)
                  ELSE Returned(call.func.value),
          score |-> em.score, spans |-> em.spans,
          steps |-> head \o em.steps
                    \o (IF em.raised.kind = "raise" \/ call.func.kind = "raise"
                        THEN <<>> ELSE <<"return">>)]

\* wrapper(*args, **kwargs): [out, score, spans, steps].
Wrapper(call) ==
    LET head == <<"start_time", "func", "end_time">> IN
    IF ~SuccessBound(call)
    THEN [out |-> Raised("UnboundLocalError"), score |-> NoScore,
          spans |-> <<>>, steps |-> head]
    ELSE IF call.func.kind = "raise"
    THEN [out |-> Raised(call.func.exc), score |-> NoScore, spans |-> <<>>,
          steps |-> head]
    ELSE IF ~Evaluates(call)
    THEN [out |-> Returned(call.func.value), score |-> NoScore,
          spans |-> <<>>, steps |-> head \o <<"return">>]
    ELSE LET em == _emit_evaluation_span(call) IN
         [out |-> IF em.raised.kind = "raise" THEN em.raised
                  ELSE Returned(call.func.value),
          score |-> em.score, spans |-> em.spans,
          steps |-> head \o em.steps
                    \o (IF em.raised.kind = "raise" THEN <<>> ELSE <<"return">>)]

\* The first argument of the scoring step, when there is one.
NoInput == [given |-> FALSE, text |-> ""]
\* metric(input_text, str(result)), _compute_deepeval_score(input_text=...)
ScoredInput(call) == [given |-> TRUE, text |-> InputText(call.args, call.kwargs)]

\* One call of the function returned by score_with(metric, threshold)(func).
score_with(call) ==
    LET w == Wrapper(call)
        emitted == Len(w.spans) > 0
        draws == IF ~emitted THEN 0 ELSE IF EnsureCreates(GateCtx) THEN 2 ELSE 1
    IN
    /\ gpc = "idle"
    /\ gcalls < MaxCalls
    /\ gpc' = "done"
    /\ gcalls' = gcalls + 1
    /\ gcall' = call
    /\ gout' = w.out
    /\ gscore' = w.score
    /\ gscored' = IF \E i \in DOMAIN w.steps : w.steps[i] = "score"
                  THEN ScoredInput(call) ELSE NoInput
    /\ gspans' = w.spans
    /\ gtrace' = w.steps
    /\ cur' = IF emitted THEN ContextSet(GateCtx, EnsureId(GateCtx)) ELSE cur
    /\ first' = IF emitted /\ first[GateCtx] = None
                THEN [first EXCEPT ![GateCtx] = EnsureId(GateCtx)] ELSE first
    /\ uuidCount' = uuidCount + draws
    /\ UNCHANGED <<kind, initial, atSpawn, ensured, renewed, last>>
    /\ UNCHANGED <<regVars, agentVars, patchVars, restVars>>

\* The caller has taken the outcome; the next call starts afresh.
gate_return ==
    /\ gpc = "done"
    /\ gpc' = "idle"
    /\ gcall' = NoCall
    /\ gout' = NoOutcome
    /\ gscore' = NoScore
    /\ gscored' = NoInput
    /\ gspans' = <<>>
    /\ gtrace' = <<>>
    /\ UNCHANGED gcalls
    /\ UNCHANGED idVars
    /\ UNCHANGED <<regVars, agentVars, patchVars, restVars>>

\* ------------------------------------------------ agent.py: instrument_agent
\* The context the wrapped methods are called in.
AgentCtx == 1
\* Instances of one class instrumented with instrument_agent.
Instances == {"a1", "a2"}
\* What the original method does when called.
AgentBehaviours ==
    { Returns(PyStr("done")), Returns(PyNone),
      Raises("ValueError", TRUE), Raises("KeyboardInterrupt", FALSE) }
\* tracer.start_as_current_span() leaving the block on an exception that does
\* not derive from Exception: the tracer in use either leaves the status as it
\* is or records the error.
TracerOnBase == {"UNSET", "ERROR"}

\* Faulty variant: the exception of the original method is swallowed.
AgentOutcome_Swallows(f) ==
    IF f.kind = "return" THEN Returned(f.value) ELSE Returned(PyNone)

\* What the caller of wrapped_method sees: `return result`, or `raise`, or the
\* exception no handler of the wrapper catches.
AgentOutcome(f) ==
    IF f.kind = "return" THEN Returned(f.value) ELSE Raised(f.exc)

\* span.set_status(): OK after the original returned, ERROR in the handler of
\* `except Exception`, the tracer's doing otherwise.
AgentStatus(f, lib) ==
    CASE f.kind = "return" -> "OK"
      [] f.kind = "raise" -> "ERROR"
      [] OTHER -> lib

\* Faulty variant: the span takes the id that is current, without ensuring one.
AgentCorrelationId_Reads == cur[AgentCtx]

\* correlation_id = ensure_correlation_id()
AgentCorrelationId == EnsureId(AgentCtx)

\* The spans one call of the instrumented method opens: each wrapper around
\* the original method opens one and then calls what it wraps.
SpansPerCall == layers

\* One call of wrapped_method on instance inst, the original method doing f.
\* The record holds the span of the outermost wrapper.
wrapped_method(inst, f, lib) ==
    LET creates == EnsureCreates(AgentCtx)
        base == IF creates THEN uuidCount + 1 ELSE uuidCount
        span == [name |-> "Agent.run",
                 corr |-> AgentCorrelationId,
                 role |-> "role",
                 agent |-> AgentIdOf(base + 1),
                 step |-> StepIdOf(base + 2),
                 type |-> "agent",
                 status |-> AgentStatus(f, lib),
                 ends |-> 1]
    IN
    /\ acount < MaxCalls
    /\ acount' = acount + 1
    /\ aspans' = Append(aspans, [inst |-> inst, orig |-> f, span |-> span,
                                 out |-> AgentOutcome(f),
                                 opened |-> SpansPerCall])
    /\ cur' = IF creates THEN ContextSet(AgentCtx, EnsureId(AgentCtx)) ELSE cur
    /\ first' = IF first[AgentCtx] = None
                THEN [first EXCEPT ![AgentCtx] = EnsureId(AgentCtx)] ELSE first
    /\ uuidCount' = base + 2 * layers
    /\ UNCHANGED layers
    /\ UNCHANGED <<kind, initial, atSpawn, ensured, renewed, last>>
    /\ UNCHANGED <<regVars, gateVars, patchVars, restVars>>

\* instrument_agent(cls, role) on the class already instrumented: the method
\* found under the name is the wrapper, which is wrapped in turn.
instrument_agent ==
    /\ layers < MaxLayers
    /\ layers' = layers + 1
    /\ UNCHANGED <<acount, aspans>>
    /\ UNCHANGED <<idVars, regVars, gateVars, patchVars, restVars>>

\* -------------------------------------------------------- _instrument.py
\* The components _apply_auto_patching patches, in the order of its try blocks.
Patchers == <<"OpenAI", "Anthropic", "HTTPX", "LangGraph", "CrewAI", "MCP", "A2A">>
PatcherNames == {Patchers[i] : i \in DOMAIN Patchers}
\* What a patcher does when called: return True or False, raise
\* NotImplementedError, raise another Exception.
PatcherOutcomes == {"True", "False", "NotImplementedError", "Exception"}
\* The interpreter's warning filter for UserWarning: "default" shows the
\* warning, "error" (python -W error) turns warnings.warn() into a raise.
WarningFilters == {"default", "error"}
\* The context the module is imported in.
ImportCtx == 1

\* The try blocks that are entered: all seven, or those up to the first whose
\* handler raises. `except Exception` calls warnings.warn(), and a warning
\* that the filter turns into an exception leaves the handler and the function.
Attempted(outs, filter) ==
    LET stops == {i \in DOMAIN Patchers :
                     outs[i] = "Exception" /\ filter = "error"}
        upto == IF stops = {} THEN Len(Patchers)
                ELSE CHOOSE i \in stops : \A j \in stops : i <= j
    IN [i \in 1..upto |-> <<Patchers[i], outs[i]>>]

\* The components among the attempts whose patcher did `what`, in order.
Did(att, what) ==
    LET sel == SelectSeq(att, LAMBDA a : a[2] = what)
    IN [i \in DOMAIN sel |-> sel[i][1]]

\* The seven try blocks: call the patcher, append to `patched` when it returns
\* True, to `failed` on NotImplementedError, warn on any other Exception.
TryPatchers(outs, filter) ==
    LET att == Attempted(outs, filter)
        stubs == Did(att, "NotImplementedError")
    IN [attempts |-> att,
        patched |-> Did(att, "True"),
        failed |-> [i \in DOMAIN stubs |-> stubs[i] \o " (stub)"],
        warned |-> IF filter = "error" THEN <<>> ELSE Did(att, "Exception"),
        raised |-> IF filter = "error" /\ Did(att, "Exception") # <<>>
                   THEN "UserWarning" ELSE ""]

\* The import of the module, once per process: _apply_auto_patching(), the
\* patchers doing outs[1..7], under the warning filter in force.
_apply_auto_patching ==
    /\ imported = "no"
    /\ \E outs \in [DOMAIN Patchers -> PatcherOutcomes], filter \in WarningFilters :
        LET r == TryPatchers(outs, filter) IN
        /\ imported' = IF r.raised = "" THEN "ok" ELSE "error"
        /\ attempts' = r.attempts
        /\ patched' = r.patched
        /\ failed' = r.failed
        /\ warned' = r.warned
        /\ pstatus' = pstatus
        /\ cur' = IF EnsureCreates(ImportCtx)
                  THEN ContextSet(ImportCtx, EnsureId(ImportCtx)) ELSE cur
        /\ first' = IF first[ImportCtx] = None
                    THEN [first EXCEPT ![ImportCtx] = EnsureId(ImportCtx)] ELSE first
        /\ uuidCount' = IF EnsureCreates(ImportCtx) THEN uuidCount + 1 ELSE uuidCount
        /\ UNCHANGED <<kind, initial, atSpawn, ensured, renewed, last>>
        /\ UNCHANGED <<regVars, gateVars, agentVars, restVars>>

\* hasattr(patcher, '__wrapped__'): the patchers are plain functions, which
\* have no such attribute.
HasWrapped(name) == FALSE

\* One entry of get_patch_status(): the import of the patcher's module
\* succeeds (it did when _instrument was imported), and the entry is
\* `patcher.__wrapped__ is not None if hasattr(patcher, '__wrapped__') else
\* True`, of which the else branch is the one taken.
PatchStatus(name) == ~HasWrapped(name)

\* get_patch_status(), callable once the module is imported.
get_patch_status ==
    /\ imported = "ok"
    /\ pstatus = [k \in {} |-> FALSE]
    /\ pstatus' = [name \in PatcherNames |-> PatchStatus(name)]
    /\ UNCHANGED <<imported, attempts, patched, failed, warned>>
    /\ UNCHANGED <<idVars, regVars, gateVars, agentVars, restVars>>

\* ----------------------------------------- _ids.py: the text of identifiers
\* '%032x' % int: the lowercase hexadecimal digits.
HexDigits ==
    <<"0", "1", "2", "3", "4", "5", "6", "7", "8", "9", "a", "b", "c", "d",
      "e", "f">>

\* n written with w hexadecimal digits, zero-padded, as a sequence of
\* characters.
RECURSIVE Hex(_, _)
Hex(n, w) ==
    IF w = 0 THEN <<>>
    ELSE Hex(n \div 16, w - 1) \o <<HexDigits[(n % 16) + 1]>>

\* uuid.uuid4(): random bits around the version digit 4 and a variant digit.
\* A value is given by its first 48 bits (hi), its variant digit and the rest
\* of its bits (lo).
UuidValues ==
    { [hi |-> h, variant |-> v, lo |-> 255] :
        h \in {0, 43981, 16777215}, v \in {"8", "b"} }

\* UUID.hex: 32 hexadecimal digits.
UuidHex(u) ==
    Hex(u.hi, 12) \o <<"4">> \o Hex(u.lo, 3) \o <<u.variant>> \o Hex(u.lo, 15)

\* str(UUID): the digits in groups of 8-4-4-4-12.
UuidStr(u) ==
    LET h == UuidHex(u) IN
    SubSeq(h, 1, 8) \o <<"-">> \o SubSeq(h, 9, 12) \o <<"-">>
        \o SubSeq(h, 13, 16) \o <<"-">> \o SubSeq(h, 17, 20) \o <<"-">>
        \o SubSeq(h, 21, 32)

\* Faulty variant: only the first eight digits are kept.
HexPart_Short(u) == SubSeq(UuidHex(u), 1, 8)

\* uuid.uuid4().hex[:12]
HexPart(u) == SubSeq(UuidHex(u), 1, 12)

\* Faulty variant: the correlation id is the bare hexadecimal form.
CorrelationIdText_Hex(u) == UuidHex(u)

\* str(uuid.uuid4())
CorrelationIdText(u) == UuidStr(u)
\* f"agt-{hex_part}"
AgentIdText(u) == <<"a", "g", "t", "-">> \o HexPart(u)
\* f"stp-{hex_part}"
StepIdText(u) == <<"s", "t", "p", "-">> \o HexPart(u)

\* The uuid4 values drawn so far; a draw never repeats one.
Drawn == {made[i].draw : i \in DOMAIN made}

\* One generator call, uuid.uuid4() yielding u.
Generate(what, u, text) ==
    /\ Len(made) < MaxIds
    /\ u \notin Drawn
    /\ made' = Append(made, [kind |-> what, draw |-> u, text |-> text])
    /\ UNCHANGED <<idVars, regVars, gateVars, agentVars, patchVars>>
    /\ UNCHANGED <<graphVars, workVars>>

\* new_correlation_id(), new_agent_id(), new_step_id() as text.
correlation_id_text(u) == Generate("cid", u, CorrelationIdText(u))
agent_id_text(u) == Generate("agt", u, AgentIdText(u))
step_id_text(u) == Generate("stp", u, StepIdText(u))

\* ------------------------- _framework/langgraph.py: instrument_langgraph
\* The one TrinetriLGCallback created by instrument_langgraph(), and a
\* callback of the caller's own.
TrinetriCallback == "trinetri"
UserCallback == "user"
\* The config objects a caller holds and may pass again, and `config=None`.
ConfigIds == {"cfgA", "cfgB"}
NoConfig == "none"
\* What the original invoke does.
GraphResults == {Returns(PyStr("out")), Raises("ValueError", TRUE)}

\* How many times x occurs in the list.
Count(list, x) == Cardinality({i \in DOMAIN list : list[i] = x})

\* config.get('callbacks', []): the caller's own list object when the key is
\* there, a new list otherwise.
ConfigGet(c) ==
    IF c # NoConfig /\ configs[c].has THEN configs[c].list ELSE <<>>

\* patched_invoke / patched_ainvoke on config c (or None): the callback is
\* appended to the list, the list is stored in the config, the root span is
\* opened and the original invoke runs, delivering each framework event to
\* every entry of the list.
patched_invoke(c, op, res) ==
    LET callbacks == Append(ConfigGet(c), TrinetriCallback) IN
    /\ Len(ginvs) < MaxCalls
    /\ configs' = IF c = NoConfig THEN configs
                  ELSE [configs EXCEPT ![c] = [has |-> TRUE, list |-> callbacks]]
    /\ ginvs' = Append(ginvs,
                       [config |-> c, op |-> op, callbacks |-> callbacks,
                        started |-> Count(callbacks, TrinetriCallback),
                        corr |-> cur[RegCtx],
                        step |-> StepIdOf(uuid4),
                        status |-> IF res.kind = "return" THEN "OK" ELSE "ERROR",
                        out |-> IF res.kind = "return" THEN Returned(res.value)
                                ELSE Raised(res.exc)])
    /\ uuidCount' = uuidCount + 1
    /\ UNCHANGED <<cur, kind, initial, atSpawn, ensured, first, renewed, last>>
    /\ UNCHANGED <<regVars, gateVars, agentVars, patchVars>>
    /\ UNCHANGED <<fmtVars, workVars>>

\* ------------------------------------------- worker.py: EvaluationQueue
Workers == 1..MaxWorkers
\* Where a consumer is in consume(): not begun; at `while self._running`;
\* awaiting wait_for(self._queue.get(), timeout=1.0); awaiting
\* _process_task; and how it left: the loop ended, a KeyboardInterrupt was
\* caught, a CancelledError went through.
Consuming == {"loop", "get", "proc"}
Ended == {"returned", "interrupted", "cancelled"}
\* How _process_task ends.
ProcessOutcomes == {"ok", "raise"}

\* Faulty variant: get() hands out the oldest task and leaves it queued.
QueueRest_Keeps(q) == q

\* asyncio.Queue.get(): the oldest task leaves the queue.
QueueRest(q) == Tail(q)

\* await queue.put(task)
put ==
    /\ putCount < MaxTasks
    /\ putCount' = putCount + 1
    /\ wq' = Append(wq, putCount + 1)
    /\ unfinished' = unfinished + 1
    /\ UNCHANGED <<running, wpc, wtask, retrieved, handled, acked, stopCalled>>
    /\ UNCHANGED <<idVars, regVars, gateVars, agentVars, patchVars>>
    /\ UNCHANGED <<fmtVars, graphVars>>

\* consume() begins to run: self._running = True.
consume_begin(w) ==
    /\ wpc[w] = "idle"
    /\ running' = TRUE
    /\ wpc' = [wpc EXCEPT ![w] = "loop"]
    /\ UNCHANGED <<wq, unfinished, putCount, wtask, retrieved, handled, acked,
                   stopCalled>>
    /\ UNCHANGED <<idVars, regVars, gateVars, agentVars, patchVars>>
    /\ UNCHANGED <<fmtVars, graphVars>>

\* `while self._running`: into the body, or out through `finally`.
loop_test(w) ==
    /\ wpc[w] = "loop"
    /\ wpc' = [wpc EXCEPT ![w] = IF running THEN "get" ELSE "returned"]
    /\ running' = IF running THEN running ELSE FALSE
    /\ UNCHANGED <<wq, unfinished, putCount, wtask, retrieved, handled, acked,
                   stopCalled>>
    /\ UNCHANGED <<idVars, regVars, gateVars, agentVars, patchVars>>
    /\ UNCHANGED <<fmtVars, graphVars>>

\* wait_for(self._queue.get(), timeout=1.0) returns a task.
get_task(w) ==
    /\ wpc[w] = "get"
    /\ wq # <<>>
    /\ wtask' = [wtask EXCEPT ![w] = Head(wq)]
    /\ wq' = QueueRest(wq)
    /\ retrieved' = Append(retrieved, [task |-> Head(wq), by |-> w])
    /\ wpc' = [wpc EXCEPT ![w] = "proc"]
    /\ UNCHANGED <<running, unfinished, putCount, handled, acked, stopCalled>>
    /\ UNCHANGED <<idVars, regVars, gateVars, agentVars, patchVars>>
    /\ UNCHANGED <<fmtVars, graphVars>>

\* wait_for times out on the empty queue: asyncio.TimeoutError, `continue`.
get_timeout(w) ==
    /\ wpc[w] = "get"
    /\ wq = <<>>
    /\ wpc' = [wpc EXCEPT ![w] = "loop"]
    /\ UNCHANGED <<running, wq, unfinished, putCount, wtask, retrieved, handled,
                   acked, stopCalled>>
    /\ UNCHANGED <<idVars, regVars, gateVars, agentVars, patchVars>>
    /\ UNCHANGED <<fmtVars, graphVars>>

\* _process_task ends: on return self._queue.task_done() follows; an
\* Exception goes to `except Exception`, which prints and continues.
process_task(w, outcome) ==
    /\ wpc[w] = "proc"
    /\ handled' = Append(handled, [task |-> wtask[w], by |-> w,
                                   outcome |-> outcome])
    /\ acked' = IF outcome = "ok"
                THEN [acked EXCEPT ![wtask[w]] = @ + 1] ELSE acked
    /\ unfinished' = IF outcome = "ok" THEN unfinished - 1 ELSE unfinished
    /\ wtask' = [wtask EXCEPT ![w] = 0]
    /\ wpc' = [wpc EXCEPT ![w] = "loop"]
    /\ UNCHANGED <<running, wq, putCount, retrieved, stopCalled>>
    /\ UNCHANGED <<idVars, regVars, gateVars, agentVars, patchVars>>
    /\ UNCHANGED <<fmtVars, graphVars>>

\* The consumer's own task is cancelled, or a KeyboardInterrupt arrives,
\* while it awaits: neither is an Exception, so the inner handlers are passed
\* by and `finally` runs: self._running = False.
consume_abort(w, how) ==
    /\ wpc[w] \in {"get", "proc"}
    /\ wpc' = [wpc EXCEPT ![w] = how]
    /\ wtask' = [wtask EXCEPT ![w] = 0]
    /\ running' = FALSE
    /\ UNCHANGED <<wq, unfinished, putCount, retrieved, handled, acked,
                   stopCalled>>
    /\ UNCHANGED <<idVars, regVars, gateVars, agentVars, patchVars>>
    /\ UNCHANGED <<fmtVars, graphVars>>

\* stop(): self._running = False.
stop ==
    /\ running' = FALSE
    /\ stopCalled' = TRUE
    /\ UNCHANGED <<wq, unfinished, putCount, wpc, wtask, retrieved, handled,
                   acked>>
    /\ UNCHANGED <<idVars, regVars, gateVars, agentVars, patchVars>>
    /\ UNCHANGED <<fmtVars, graphVars>>

Init ==
    /\ cur = [c \in {1} |-> None]
    /\ kind = [c \in {1} |-> "root"]
    /\ initial = [c \in {1} |-> None]
    /\ atSpawn = [c \in {1} |-> None]
    /\ ensured = [c \in {1} |-> None]
    /\ first = [c \in {1} |-> None]
    /\ renewed = [c \in {1} |-> FALSE]
    /\ last = NoOp
    /\ uuidCount = 0
    /\ activeSpans = [k \in {} |-> 0]
    /\ spans = <<>>
    /\ ev = NoEvent
    /\ thr = [t \in 1..MaxThreads |-> ThreadIdle]
    /\ gpc = "idle"
    /\ gcalls = 0
    /\ gcall = NoCall
    /\ gout = NoOutcome
    /\ gscore = NoScore
    /\ gscored = NoInput
    /\ gspans = <<>>
    /\ gtrace = <<>>
    /\ acount = 0
    /\ aspans = <<>>
    /\ imported = "no"
    /\ attempts = <<>>
    /\ patched = <<>>
    /\ failed = <<>>
    /\ warned = <<>>
    /\ pstatus = [k \in {} |-> FALSE]
    /\ layers = 1
    /\ made = <<>>
    /\ configs = [c \in ConfigIds |->
                     IF c = "cfgA" THEN [has |-> FALSE, list |-> <<>>]
                     ELSE [has |-> TRUE, list |-> <<UserCallback>>]]
    /\ ginvs = <<>>
    /\ running = FALSE
    /\ wq = <<>>
    /\ unfinished = 0
    /\ putCount = 0
    /\ wpc = [w \in Workers |-> "idle"]
    /\ wtask = [w \in Workers |-> 0]
    /\ retrieved = <<>>
    /\ handled = <<>>
    /\ acked = [n \in 1..MaxTasks |-> 0]
    /\ stopCalled = FALSE

IdNext ==
    \/ \E c \in Ctxs : new_correlation_id(c)
    \/ \E c \in Ctxs : get_correlation_id(c)
    \/ \E c \in Ctxs : ensure_correlation_id(c)
    \/ \E c \in Ctxs : new_agent_id(c)
    \/ \E c \in Ctxs : new_step_id(c)
    \/ \E c \in Ctxs : spawn_task(c)
    \/ \E c \in Ctxs : spawn_thread(c)

IdSpec == Init /\ [][IdNext]_vars

\* The callback registry under any sequence of framework events, delivered in
\* a context that may or may not hold a correlation id.
RegNext ==
    \/ \E ser \in Serialized, rid \in RunIdArgs, addr \in Addrs :
          on_chain_start(ser, "in", rid, addr)
    \/ \E o \in Outputs, rid \in RunIdArgs : on_chain_end(o, rid)
    \/ \E e \in Errors, rid \in RunIdArgs : on_chain_error(e, rid)
    \/ \E ser \in Serialized, rid \in RunIdArgs, addr \in Addrs :
          on_tool_start(ser, "in", rid, addr)
    \/ \E o \in Outputs, rid \in RunIdArgs : on_tool_end(o, rid)
    \/ \E e \in Errors, rid \in RunIdArgs : on_tool_error(e, rid)

RegSpec == Init /\ [][RegNext]_vars

\* One callback object shared by threads: start events open spans, and each
\* thread delivers one end or error event, its handler running statement by
\* statement, interleaved with the other threads'.
ThreadNext ==
    \/ \E ser \in Serialized, rid \in RunIdArgs, addr \in Addrs :
          on_chain_start(ser, "in", rid, addr)
    \/ \E t \in Threads, o \in Outputs, rid \in RunIdArgs :
          handler_enter(t, "end", JsonDumps(o), NoError, rid)
    \/ \E t \in Threads, e \in Errors, rid \in RunIdArgs :
          handler_enter(t, "error", e.msg, e, rid)
    \/ \E t \in Threads : handler_test(t)
    \/ \E t \in Threads : handler_pop(t)
    \/ \E t \in Threads : handler_finish(t)

ThreadSpec == Init /\ [][ThreadNext]_vars

\* Calls of a gated function, one after the other, in one context.
GateNext ==
    \/ \E a \in ArgLists, kw \in KwargSets, f \in FuncBehaviours,
          m \in Metrics, th \in Thresholds :
          \E sb \in ScorerBehaviours(m) : score_with(Call(a, kw, f, m, th, sb))
    \/ gate_return

GateSpec == Init /\ [][GateNext]_vars

\* The gated calls made next to agent calls: the function returns or raises,
\* the score is above or below the threshold.
WrapGateCalls ==
    { Call(<<>>, [k \in {} |-> PyNone], f, MetricFn("scorer"), DefaultThreshold,
           Scoring("return", Num(s)))
      : f \in {Returns(PyStr("reply")), Raises("ValueError", TRUE)},
        s \in {700, 900} }

\* Calls of wrapped agent methods and of gated functions in one context, which
\* may or may not hold a correlation id when a call is made.
WrapNext ==
    \/ new_correlation_id(AgentCtx)
    \/ \E inst \in Instances, f \in AgentBehaviours, lib \in TracerOnBase :
          wrapped_method(inst, f, lib)
    \/ \E call \in WrapGateCalls : score_with(call)
    \/ gate_return

WrapSpec == Init /\ [][WrapNext]_vars

\* The import of _instrument.py with patchers that behave in any way, then a
\* call of get_patch_status().
PatchNext ==
    \/ _apply_auto_patching
    \/ get_patch_status

PatchSpec == Init /\ [][PatchNext]_vars

\* Generator calls, each on a uuid4 value not drawn before.
TextNext ==
    \/ \E u \in UuidValues : correlation_id_text(u)
    \/ \E u \in UuidValues : agent_id_text(u)
    \/ \E u \in UuidValues : step_id_text(u)

TextSpec == Init /\ [][TextNext]_vars

\* One EvaluationQueue: producers put tasks, consumers run consume(), stop()
\* may be called at any time, and a consumer may be cancelled or interrupted.
WorkerNext ==
    \/ put
    \/ \E w \in Workers : consume_begin(w)
    \/ \E w \in Workers : loop_test(w)
    \/ \E w \in Workers : get_task(w)
    \/ \E w \in Workers : get_timeout(w)
    \/ \E w \in Workers, outcome \in ProcessOutcomes : process_task(w, outcome)
    \/ \E w \in Workers, how \in {"cancelled", "interrupted"} :
          consume_abort(w, how)
    \/ stop

WorkerSpec == Init /\ [][WorkerNext]_vars

\* The event loop runs every consumer that can take a step.
ConsumerStep(w) ==
    \/ loop_test(w)
    \/ get_task(w)
    \/ get_timeout(w)
    \/ \E outcome \in ProcessOutcomes : process_task(w, outcome)

WorkerFairSpec ==
    WorkerSpec /\ \A w \in Workers : WF_vars(ConsumerStep(w))

\* Invocations of patched graphs, with no config or with a config the caller
\* holds and may pass again.
GraphNext ==
    \E c \in ConfigIds \cup {NoConfig}, op \in {"invoke", "ainvoke"},
       res \in GraphResults : patched_invoke(c, op, res)

GraphSpec == Init /\ [][GraphNext]_vars

\* Calls of the instrumented method of a class that instrument_agent may be
\* applied to again.
ReapplyNext ==
    \/ instrument_agent
    \/ \E inst \in Instances, f \in AgentBehaviours, lib \in TracerOnBase :
          wrapped_method(inst, f, lib)

ReapplySpec == Init /\ [][ReapplyNext]_vars

\* ======================================================== claims, identity

\* C7: within one context ensure_correlation_id() is idempotent: with an id
\* current it returns that id and does not replace it; a call returns what the
\* previous ensure_correlation_id() of that context returned unless
\* new_correlation_id() ran in between; and get_correlation_id() afterwards
\* returns that same value.
C7_EnsureIdempotent ==
    [][ /\ last'.op = "ensure" =>
            /\ cur[last'.ctx] # None =>
                  (last'.ret = cur[last'.ctx] /\ cur' = cur)
            /\ ensured[last'.ctx] # None => last'.ret = ensured[last'.ctx]
            /\ cur'[last'.ctx] = last'.ret
            /\ last'.ret # None
        /\ (last'.op = "get" /\ ensured[last'.ctx] # None) =>
              last'.ret = ensured[last'.ctx] ]_vars

\* C7 witness: ensure_correlation_id() has just returned the id that was
\* already current in a context other than the one that created it.
C7_Witness ==
    /\ last.op = "ensure"
    /\ last.ret # None
    /\ cur[last.ctx] = last.ret
    /\ initial[last.ctx] = last.ret

\* C8: an identity operation executed in one context never changes the id that
\* any other context observes, whatever the interleaving.
C8_Isolation ==
    [][ \A c \in Ctxs : c # last'.ctx => cur'[c] = cur[c] ]_vars

\* C8 witness: a child task has replaced the id it inherited while its parent
\* and a sibling task still hold the inherited one.
C8_Witness ==
    \E c \in Ctxs, d \in Ctxs :
        /\ c # d
        /\ kind[c] = "task" /\ kind[d] = "task"
        /\ initial[c] # None /\ initial[d] = initial[c]
        /\ cur[c] # None /\ cur[c] # initial[c]
        /\ cur[d] = initial[d]
        /\ cur[1] = initial[c]

\* C9: every spawned context, task or thread, starts with the id that was
\* current in the spawning context at spawn time.
C9_ChildStartsWithParentId ==
    \A c \in Ctxs : kind[c] # "root" => initial[c] = atSpawn[c]

\* The step is an ensure_correlation_id() or get_correlation_id() call in a
\* context that started with no id and has an established first id.
LaterRead ==
    /\ last' # last
    /\ last'.op \in {"ensure", "get"}
    /\ initial[last'.ctx] = None
    /\ first[last'.ctx] # None

\* In a context that started with no id, the first ensure_correlation_id() or
\* new_correlation_id() call installs the id it returns.
FirstCallEstablishes ==
    ( /\ last' # last
      /\ last'.op \in {"ensure", "new"}
      /\ initial[last'.ctx] = None
      /\ first[last'.ctx] = None )
    => /\ last'.ret # None
       /\ cur[last'.ctx] = None
       /\ cur'[last'.ctx] = last'.ret
       /\ first'[last'.ctx] = last'.ret

\* C19 (as amended): in a context that starts with no id, the first
\* ensure_correlation_id() or new_correlation_id() call establishes the id,
\* and every later ensure_correlation_id() and get_correlation_id() in that
\* context returns it for as long as new_correlation_id() is not called there
\* again.
C19_FirstIdUntilRenewed ==
    [][ /\ FirstCallEstablishes
        /\ (LaterRead /\ ~renewed[last'.ctx]) =>
              last'.ret = first[last'.ctx] ]_vars

\* C19 witness: a thread that started with no id established one, another
\* identifier was drawn after that, and a later ensure_correlation_id() in
\* the thread returned the id established first.
C19_Witness ==
    /\ last.op = "ensure"
    /\ kind[last.ctx] = "thread"
    /\ initial[last.ctx] = None
    /\ first[last.ctx] # None
    /\ last.ret = first[last.ctx]
    /\ uuidCount > first[last.ctx].n

\* C19 (as stated): in a context that starts with no id, after the first id
\* is established every later ensure_correlation_id() and
\* get_correlation_id() returns that first id, whatever identity operations
\* ran in between.
C19_FirstIdForever ==
    [][ /\ FirstCallEstablishes
        /\ LaterRead => last'.ret = first[last'.ctx] ]_vars

\* C20: new_correlation_id() returns an id no context holds, different from
\* the caller's previous one, and installs it for the calling context; a
\* get_correlation_id() that follows immediately in that context returns it.
C20_NewInstallsFresh ==
    [][ /\ (last' # last /\ last'.op = "new") =>
              /\ last'.ret.k = "cid"
              /\ \A c \in Ctxs : cur[c] # last'.ret
              /\ last'.ret # cur[last'.ctx]
              /\ cur'[last'.ctx] = last'.ret
        /\ (last.op = "new" /\ last'.op = "get" /\ last'.ctx = last.ctx) =>
              last'.ret = last.ret ]_vars

\* C20 witness: new_correlation_id() has just replaced an id that was
\* established earlier in the same context.
C20_Witness ==
    /\ last.op = "new"
    /\ renewed[last.ctx]
    /\ first[last.ctx] # None
    /\ cur[last.ctx] = last.ret
    /\ last.ret # first[last.ctx]

\* C21: get_correlation_id() returns the context's current id and installs
\* nothing; in a context where no id was ever installed it returns None;
\* get_correlation_id(), new_agent_id() and new_step_id() leave every
\* context's id as it was, so an existing context's id changes only in a
\* new_correlation_id() or ensure_correlation_id() step of that context.
C21_ReadsAndGeneratorsKeepId ==
    [][ /\ (last' # last /\ last'.op = "get") =>
              /\ last'.ret = cur[last'.ctx]
              /\ (initial[last'.ctx] = None /\ first[last'.ctx] = None) =>
                    last'.ret = None
        /\ (last' # last /\ last'.op \in {"get", "agent", "step"}) =>
              /\ cur' = cur
              /\ first' = first
        /\ \A c \in Ctxs :
              cur'[c] # cur[c] =>
                  /\ last' # last
                  /\ last'.op \in {"new", "ensure"}
                  /\ last'.ctx = c ]_vars

\* C21 witness: get_correlation_id() has just returned None in a thread where
\* no id was installed, while the root context holds one and step ids were
\* drawn.
C21_Witness ==
    /\ last.op = "get"
    /\ last.ret = None
    /\ kind[last.ctx] = "thread"
    /\ first[last.ctx] = None
    /\ cur[last.ctx] = None
    /\ cur[1] # None
    /\ uuidCount > cur[1].n

\* Contexts c and d are two spawned contexts in each of which
\* ensure_correlation_id() has returned a value.
EnsuredInBoth(c, d) ==
    /\ c # d
    /\ kind[c] # "root" /\ kind[d] # "root"
    /\ ensured[c] # None /\ ensured[d] # None

\* C22 (as amended): ensure_correlation_id() called in two spawned contexts
\* that each started with no current id returns two different values.
C22_FreshTasksDiffer ==
    \A c \in Ctxs, d \in Ctxs :
        (EnsuredInBoth(c, d) /\ initial[c] = None /\ initial[d] = None)
            => ensured[c] # ensured[d]

\* C22 witness: two tasks spawned by a parent that held no id have each called
\* ensure_correlation_id() and hold different ids.
C22_Witness ==
    \E c \in Ctxs, d \in Ctxs :
        /\ EnsuredInBoth(c, d)
        /\ kind[c] = "task" /\ kind[d] = "task"
        /\ initial[c] = None /\ initial[d] = None
        /\ ensured[c] # ensured[d]
        /\ cur[c] = ensured[c] /\ cur[d] = ensured[d]

\* C22 (as stated): ensure_correlation_id() called in two spawned tasks
\* returns two different values, whatever id the tasks started with.
C22_TasksDiffer ==
    \A c \in Ctxs, d \in Ctxs :
        (EnsuredInBoth(c, d) /\ kind[c] = "task" /\ kind[d] = "task")
            => ensured[c] # ensured[d]

\* ======================================================== claims, registry

\* The text an end or error event attaches is among the span's attributes.
Attached(sp, names, value) ==
    \E a \in DOMAIN sp.attrs : a \in names /\ sp.attrs[a] = value

\* C5: a start event carrying run id k, delivered when the registry has no
\* entry for k, followed by an end event carrying k, ends exactly the span the
\* start opened, with status OK and the outputs attached, and leaves no entry
\* for k.
C5_StartThenEnd ==
    [][ ( /\ ev.type = "start" /\ ev.rid # Absent /\ ~ev.hadEntry
          /\ ev'.type = "end" /\ ev'.rid = ev.rid )
        => /\ ev'.ended = {ev.opened}
           /\ spans'[ev.opened].ends = 1
           /\ spans'[ev.opened].status = "OK"
           /\ Attached(spans'[ev.opened], {"lg.outputs", "lg.tool.output"},
                       ev'.payload)
           /\ ev.rid \notin DOMAIN activeSpans' ]_vars

\* C6: an end or error event whose key has no open entry raises nothing, ends
\* no span and leaves the map and every span as they were.
C6_UnknownKeyNoOp ==
    [][ ( /\ ev'.type \in {"end", "error"}
          /\ KwargsGet(ev'.rid, NoneKey) \notin DOMAIN activeSpans )
        => /\ ev'.raised = ""
           /\ ev'.ended = {}
           /\ activeSpans' = activeSpans
           /\ spans' = spans ]_vars

\* C6 witness: an end or error event arrived for a key whose span had already
\* been completed, while another span was still open.
C6_Witness ==
    /\ ev.type \in {"end", "error"}
    /\ Truthy(ev.key)
    /\ ~ev.hadEntry
    /\ \E i \in DOMAIN spans : spans[i].key = ev.key /\ spans[i].ends = 1
    /\ DOMAIN activeSpans # {}

C11_EntryRemovedByCompletion ==
    [][ ( /\ ev.type = "start"
          /\ Truthy(ev.rid) \/ ev.rid = Absent
          /\ ev'.type \in {"end", "error"}
          /\ ev'.flavour = ev.flavour
          /\ ev'.rid = ev.rid )
        => /\ ev.key \notin DOMAIN activeSpans'
           /\ ev'.ended = {ev.opened}
           /\ spans'[ev.opened].ends = 1 ]_vars

\* C13: every start, end and error event, whether or not its key has an entry,
\* has a defined outcome and raises nothing: a start event opens one span and
\* stores it under its key, replacing whatever entry the key had and touching
\* no other entry and no earlier span; an end or error event removes the entry
\* of its key when the handler finds one and otherwise changes nothing.
C13_Total ==
    [][ /\ ev'.raised = ""
        /\ ev'.type = "start" =>
              /\ DOMAIN activeSpans' = DOMAIN activeSpans \cup {ev'.key}
              /\ activeSpans'[ev'.key] = Len(spans')
              /\ spans'[Len(spans')].ends = 0
              /\ \A k \in DOMAIN activeSpans \ {ev'.key} :
                    activeSpans'[k] = activeSpans[k]
              /\ \A i \in DOMAIN spans : spans'[i] = spans[i]
        /\ (ev'.type \in {"end", "error"} /\ Found(ev'.key)) =>
              /\ DOMAIN activeSpans' = DOMAIN activeSpans \ {ev'.key}
              /\ \A k \in DOMAIN activeSpans' : activeSpans'[k] = activeSpans[k]
        /\ (ev'.type \in {"end", "error"} /\ ~Found(ev'.key)) =>
              /\ activeSpans' = activeSpans
              /\ spans' = spans ]_vars

\* C13 witness: a start event arrived for a key whose earlier span was still
\* open; the key now holds the new span and the earlier one is left open.
C13_Witness ==
    /\ ev.type = "start"
    /\ ev.hadEntry
    /\ ev.raised = ""
    /\ activeSpans[ev.key] = ev.opened
    /\ \E i \in DOMAIN spans :
          i # ev.opened /\ spans[i].key = ev.key /\ spans[i].ends = 0

\* Span i is the value of some key of the registry map.
Held(i) == \E k \in DOMAIN activeSpans : activeSpans[k] = i

\* C36: no span is leaked: every span a start event opened and no event has
\* ended is held in the registry map, under the key it was opened for; a
\* second start event on a key with an open entry does not leave the earlier
\* span open and out of reach.
C36_NoSpanLeaked ==
    \A i \in DOMAIN spans :
        spans[i].ends = 0 =>
            /\ Held(i)
            /\ spans[i].key \in DOMAIN activeSpans
            /\ activeSpans[spans[i].key] = i

\* Threads t and u have both left their handlers, and each had entered it for
\* the same key while the same span was open under it.
RacedFor(t, u) ==
    /\ t # u
    /\ thr[t].pc = "done" /\ thr[u].pc = "done"
    /\ thr[t].run_id = thr[u].run_id
    /\ thr[t].target # 0 /\ thr[t].target = thr[u].target

\* C12: when two threads deliver end or error events for the same open key,
\* then whatever the interleaving neither handler raises, the span is ended
\* exactly once, no entry holds it any more, and if one of the events was an
\* error event the span finished with that error recorded.
C12_RaceEndsOnce ==
    \A t \in Threads, u \in Threads :
        RacedFor(t, u) =>
            /\ thr[t].raised = "" /\ thr[u].raised = ""
            /\ spans[thr[t].target].ends = 1
            /\ \A k \in DOMAIN activeSpans : activeSpans[k] # thr[t].target
            /\ thr[t].type = "error" =>
                  /\ spans[thr[t].target].status = "ERROR"
                  /\ spans[thr[t].target].msg = thr[t].error.msg

\* C23: every span a start event of the callback opens carries a correlation
\* id that is present, also when the event is delivered in a context in which
\* no id was installed.
C23_AdapterSpansCarryId ==
    \A i \in DOMAIN spans : spans[i].corr # None

\* ============================================================ claims, gate

\* The gated function returned and the scoring step produced a number.
Scored == gpc = "done" /\ gcall.func.kind = "return" /\ gscore.t = "num"

\* C1: when a score is computed and it is strictly below the threshold, the
\* call raises EvaluationError carrying that score, the configured threshold
\* and the metric name (the metric string, or the callable's __name__).
C1_BelowThresholdRaises ==
    (Scored /\ gscore.v < gcall.threshold) =>
        /\ gout.kind = "raise"
        /\ gout.exc = "EvaluationError"
        /\ gout.score = gscore
        /\ gout.threshold = gcall.threshold
        /\ (~gcall.metric.callable \/ gcall.metric.hasName) =>
              gout.metric = gcall.metric.text

\* C1 witness: a named scoring callable scored below the threshold and the
\* call raised EvaluationError.
C1_Witness ==
    /\ Scored
    /\ gcall.metric = MetricFn("my_metric")
    /\ gscore = Num(700) /\ gcall.threshold = DefaultThreshold
    /\ gout.exc = "EvaluationError"

\* C2: when the computed score is at or above the threshold, the call returns
\* exactly what the wrapped function returned.
C2_AtOrAboveReturns ==
    (Scored /\ gscore.v >= gcall.threshold) =>
        /\ gout.kind = "return"
        /\ gout.value = gcall.func.value

\* C2 witness: the score equals the threshold and the call returned the reply.
C2_Witness ==
    /\ Scored
    /\ gscore.v = gcall.threshold
    /\ gout.kind = "return"
    /\ gout.value = PyStr("reply")

\* C3: when the wrapped function raises, the gated call raises that very
\* exception, whether or not its class derives from Exception.
C3_ExceptionPassesThrough ==
    (gpc = "done" /\ gcall.func.kind \in {"raise", "raiseBase"}) =>
        /\ gout.kind = "raise"
        /\ gout.exc = gcall.func.exc

\* C4: every call in which the wrapped function returns, whatever the value,
\* emits exactly one evaluation span.
C4_OneSpanPerReturn ==
    (gpc = "done" /\ gcall.func.kind = "return") => Len(gspans) = 1

\* C14: whatever the scoring strategy does (a number inside or outside [0,1],
\* a value that is no number, an exception; a named evaluator that is missing
\* or raises), the caller of the gated function sees one of three outcomes:
\* the wrapped function's result, EvaluationError, or the exception the
\* wrapped function raised.
C14_ThreeOutcomes ==
    ( /\ gpc = "done"
      /\ gcall.func.kind \in {"return", "raise"}
      /\ gcall.scorer.kind \in {"return", "raise", "missing"} )
    => \/ gcall.func.kind = "return" /\ gout = Returned(gcall.func.value)
       \/ gcall.func.kind = "return" /\ gout.exc = "EvaluationError"
       \/ gcall.func.kind = "raise" /\ gout = Raised(gcall.func.exc)

\* The call reached the scoring step and scoring failed in one of the ways
\* kinds names ("raise": the callable or the evaluator raised an Exception;
\* "raiseBase": it raised a BaseException that is no Exception; "missing":
\* deepeval is not installed), or the metric name is not "g-eval".
ScoringFailed(kinds) ==
    /\ gpc = "done"
    /\ Evaluates(gcall)
    /\ \/ gcall.metric.callable /\ gcall.scorer.kind \in kinds
       \/ ~gcall.metric.callable /\ gcall.metric.text = "g-eval"
             /\ gcall.scorer.kind \in kinds
       \/ ~gcall.metric.callable /\ gcall.metric.text # "g-eval"

\* The gate went on with the fallback score: it is the score compared with
\* the threshold and recorded in the one span, and the caller sees the result
\* or EvaluationError carrying it, never the scoring failure.
UsedFallback ==
    /\ gscore = Num(FallbackScore)
    /\ Len(gspans) = 1
    /\ gspans[1].score = Num(FallbackScore)
    /\ gout = IF FallbackScore >= gcall.threshold
              THEN Returned(gcall.func.value)
              ELSE EvaluationError(Num(FallbackScore), gcall.threshold,
                                   MetricName(gcall.metric))

DefaultCallFailed(kinds) ==
    /\ gpc = "done"
    /\ gcall.metric = MetricStr("g-eval")
    /\ gcall.threshold = DefaultThreshold
    /\ gcall.func.kind = "return"
    /\ gcall.scorer.kind \in kinds

InUnitRange(score) == score.t = "num" /\ score.v >= 0 /\ score.v <= 1000

\* C17: the score the gate compares with the threshold, records as eval.score
\* in the evaluation span and carries in EvaluationError lies in [0, 1], for
\* every metric and every value the scoring strategy returns.
C17_ScoreInUnitRange ==
    gpc = "done" =>
        /\ \A i \in DOMAIN gspans : InUnitRange(gspans[i].score)
        /\ gout.exc = "EvaluationError" => InUnitRange(gout.score)

\* The steps of the evaluation: scoring, the comparison, the span.
EvalSteps == {"score", "compare", "span_start", "span_end", "raise"}

\* C18: a call whose wrapped function raises, or is abandoned by an exception
\* that is no Exception, performs no scoring and emits no evaluation span: the
\* scoring strategy is not invoked, no span is opened, and no identifier is
\* drawn or installed for one.
C18_NoEvaluationOnFailure ==
    [][ ( /\ gpc = "idle" /\ gpc' = "done"
          /\ gcall'.func.kind \in {"raise", "raiseBase"} )
        => /\ gspans' = <<>>
           /\ gscore' = NoScore
           /\ \A i \in DOMAIN gtrace' : gtrace'[i] \notin EvalSteps
           /\ gout'.kind = "raise"
           /\ gout'.exc # "EvaluationError"
           /\ uuidCount' = uuidCount
           /\ cur' = cur ]_vars

\* C18 witness: the wrapped function raised ValueError under a scoring callable
\* that would have scored the call; the caller saw ValueError and no span was
\* emitted.
C18_Witness ==
    /\ gpc = "done"
    /\ gcall.func = Raises("ValueError", TRUE)
    /\ gcall.metric.callable
    /\ gcall.scorer = Scoring("return", Num(900))
    /\ gout = Raised("ValueError")
    /\ gspans = <<>>
    /\ gtrace = <<"start_time", "func", "end_time">>

\* The place of a step in the steps the gated call took (0 if it took none).
StepAt(name) ==
    IF \E i \in DOMAIN gtrace : gtrace[i] = name
    THEN CHOOSE i \in DOMAIN gtrace : gtrace[i] = name
    ELSE 0

\* C25: the duration written to the evaluation span covers the computation of
\* the score: the timestamp that ends it is taken after scoring has returned.
C25_DurationCoversScoring ==
    \A i \in DOMAIN gspans :
        /\ StepAt(gspans[i].duration[1]) < StepAt("score")
        /\ StepAt("score") < StepAt(gspans[i].duration[2])

\* The scoring step of the call has run.
ScoringRan == gpc = "done" /\ gscored.given

\* The text both the scoring step and the span's eval.input (capped) hold.
InputIs(text) ==
    /\ gscored.text = text
    /\ \A i \in DOMAIN gspans : gspans[i].input = Truncate(text)

\* C26: the input scored and recorded is the first positional argument when
\* there is one, else the keyword argument input, else the keyword argument
\* query, else the empty string; the scoring step and eval.input (capped) get
\* the same text.
C26_InputPrecedence ==
    ScoringRan =>
        /\ Len(gcall.args) > 0 => InputIs(Str(gcall.args[1]))
        /\ (Len(gcall.args) = 0 /\ "input" \in DOMAIN gcall.kwargs) =>
               InputIs(Str(gcall.kwargs["input"]))
        /\ (Len(gcall.args) = 0 /\ "input" \notin DOMAIN gcall.kwargs
               /\ "query" \in DOMAIN gcall.kwargs) =>
               InputIs(Str(gcall.kwargs["query"]))
        /\ (Len(gcall.args) = 0 /\ DOMAIN gcall.kwargs = {}) => InputIs("")

\* A call with a positional argument and both keyword arguments was scored
\* and recorded with the positional argument.
C26_Witness ==
    /\ ScoringRan
    /\ Len(gcall.args) > 0
    /\ DOMAIN gcall.kwargs = {"input", "query"}
    /\ Len(gspans) = 1
    /\ gspans[1].input = Str(gcall.args[1])
    /\ gscored.text = Str(gcall.args[1])
    /\ gscored.text # Str(gcall.kwargs["input"])

\* The steps a, b happened, a before b.
Before(a, b) == 0 < StepAt(a) /\ StepAt(a) < StepAt(b)

\* C33: on a call whose wrapped function returned, the steps are SCORE,
\* RECORD, GATE in that order: one evaluation span is opened and ended after
\* scoring and before EvaluationError is raised or the result is returned;
\* eval.pass is (score >= threshold), the status is OK when it is true and
\* ERROR when it is false, and EvaluationError is raised exactly when it is
\* false.
C33_ScoreRecordGate ==
    (gpc = "done" /\ gcall.func.kind = "return") =>
        /\ Len(gspans) = 1
        /\ Before("score", "span_start")
        /\ Before("span_start", "span_end")
        /\ Before("span_end", "raise") \/ Before("span_end", "return")
        /\ \A i \in DOMAIN gspans :
              /\ gspans[i].pass = EvalPass(gspans[i].score, gspans[i].threshold)
              /\ gspans[i].status = (IF gspans[i].pass THEN "OK" ELSE "ERROR")
              /\ gspans[i].ends = 1
              /\ (gout.exc = "EvaluationError") = ~gspans[i].pass

\* The evaluation ran through: the wrapped function returned a value other
\* than None and scoring gave a score that can be compared.
EvaluationRan ==
    /\ gpc = "done"
    /\ Evaluates(gcall)
    /\ Comparable(gscore)

\* Whenever the evaluation ran through, its steps, its span and its outcome
\* are as C33 says.
EvaluationRanInOrder == EvaluationRan => C33_ScoreRecordGate

\* =========================================================== claims, agent

\* The calls of wrapped_method made so far.
AgentCalls == DOMAIN aspans

\* C24: all traced calls made on one instance of an instrumented class carry
\* the same agent id, and every traced call carries a step id of its own.
C24_AgentIdPerInstance ==
    \A i, j \in AgentCalls :
        /\ aspans[i].inst = aspans[j].inst =>
               aspans[i].span.agent = aspans[j].span.agent
        /\ i # j => aspans[i].span.step # aspans[j].span.step


\* The step gives a span the correlation id `id` in context c: the id is
\* present and is the context's id after the step; an id that was current
\* before is the one carried and stays; with none current, the id carried is
\* installed.
CarriesContextId(id, c) ==
    /\ id # None
    /\ id = cur'[c]
    /\ cur[c] # None => (id = cur[c] /\ cur' = cur)
    /\ cur[c] = None => cur' = ContextSet(c, id)

\* C27: the span of a call of score_with or of a method wrapped by
\* instrument_agent carries a correlation id that is present and is the
\* calling context's current id: the id current before the call, left
\* unchanged, or else an id created by the call and made current.
C27_WrappedSpansCarryContextId ==
    [][ /\ aspans' # aspans =>
              CarriesContextId(aspans'[Len(aspans')].span.corr, AgentCtx)
        /\ (gspans' # gspans /\ Len(gspans') > 0) =>
              CarriesContextId(gspans'[1].corr, GateCtx) ]_vars

\* One agent call and one gated call have emitted a span each; the earlier of
\* the two created the id, the later one found it current and carries it too.
C27_Witness ==
    /\ Len(aspans) = 1
    /\ Len(gspans) = 1
    /\ uuidCount = 4
    /\ aspans[1].span.corr = Cid(1)
    /\ gspans[1].corr = Cid(1)
    /\ cur[AgentCtx] = Cid(1)


\* The caller of call i saw what the original method did: its return value,
\* or the exception it raised.
Transparent(i) ==
    IF aspans[i].orig.kind = "return"
    THEN aspans[i].out = Returned(aspans[i].orig.value)
    ELSE aspans[i].out = Raised(aspans[i].orig.exc)

\* C28: a wrapped method hands its caller what the original returned or
\* raised, opens one span per call, and the span's status is OK when the
\* original returned and ERROR when it raised an Exception.
C28_WrapperTransparent ==
    /\ Len(aspans) = acount
    /\ \A i \in AgentCalls :
          /\ Transparent(i)
          /\ aspans[i].span.ends = 1
          /\ aspans[i].orig.kind = "return" => aspans[i].span.status = "OK"
          /\ aspans[i].orig.kind = "raise" => aspans[i].span.status = "ERROR"

\* Two calls: one returned the original's value under an OK span, one passed
\* on the original's ValueError under an ERROR span.
C28_Witness ==
    /\ acount = 2
    /\ \E i, j \in AgentCalls :
          /\ aspans[i].out = Returned(PyStr("done"))
          /\ aspans[i].span.status = "OK"
          /\ aspans[j].out = Raised("ValueError")
          /\ aspans[j].span.status = "ERROR"

\* C28 as stated: the status is ERROR whenever the original raised, whatever
\* the exception.
C28_ErrorOnEveryRaise ==
    \A i \in AgentCalls :
        /\ Transparent(i)
        /\ aspans[i].orig.kind = "return" => aspans[i].span.status = "OK"
        /\ aspans[i].orig.kind # "return" => aspans[i].span.status = "ERROR"


\* C38: instrument_agent is idempotent on a class: however many times it has
\* been applied, each call of the instrumented method opens exactly one span.
C38_InstrumentIdempotent ==
    \A i \in DOMAIN aspans : aspans[i].opened = 1

\* ======================================================== claims, patching

Applied(name) == \E i \in DOMAIN patched : patched[i] = name

\* C30: get_patch_status() returns a boolean for each of the seven components:
\* True only for a component whose patch was applied, False for one whose
\* patcher returned False or raised.
C30_StatusReportsApplied ==
    pstatus # [k \in {} |-> FALSE] =>
        /\ DOMAIN pstatus = PatcherNames
        /\ \A name \in PatcherNames :
              /\ pstatus[name] \in BOOLEAN
              /\ pstatus[name] => Applied(name)
              /\ ~Applied(name) => ~pstatus[name]


\* =================================================== claims, identifier text

LowerHex == {HexDigits[i] : i \in DOMAIN HexDigits}

\* prefix, then exactly 12 lowercase hexadecimal characters: 16 in all.
HasIdFormat(text, prefix) ==
    /\ Len(text) = 16
    /\ SubSeq(text, 1, 4) = prefix
    /\ \A i \in 5..16 : text[i] \in LowerHex

\* 36 characters, four of them hyphens, the others lowercase hexadecimal.
IsUuidText(text) ==
    /\ Len(text) = 36
    /\ Count(text, "-") = 4
    /\ \A i \in DOMAIN text : text[i] \in LowerHex \cup {"-"}

\* C31: an agent id is "agt-" and 12 lowercase hexadecimal characters, a step
\* id is "stp-" and 12 lowercase hexadecimal characters, and a correlation id
\* is a UUID text of 36 characters with four hyphens.
C31_IdFormats ==
    \A i \in DOMAIN made :
        /\ made[i].kind = "agt" => HasIdFormat(made[i].text, <<"a", "g", "t", "-">>)
        /\ made[i].kind = "stp" => HasIdFormat(made[i].text, <<"s", "t", "p", "-">>)
        /\ made[i].kind = "cid" => IsUuidText(made[i].text)

\* One identifier of each kind has been generated, the agent id from a uuid4
\* whose leading digits are not all decimal.
C31_Witness ==
    /\ Len(made) = 3
    /\ {made[i].kind : i \in DOMAIN made} = {"agt", "stp", "cid"}
    /\ \E i \in DOMAIN made :
          /\ made[i].kind = "agt"
          /\ made[i].text = <<"a", "g", "t", "-", "0", "0", "0", "0", "0", "0",
                              "0", "0", "a", "b", "c", "d">>

\* Two identifiers of one kind from separate generator calls.
SameKind(i, j) == i # j /\ made[i].kind = made[j].kind

AllReturned == \A w \in Workers : wpc[w] \notin Consuming

\* C34: once stop() has been called, every consume() on the queue eventually
\* returns, whether it had begun before the call or begins after it.
C34_StopEndsConsume == stopCalled ~> AllReturned

\* stop() has been called, the flag it cleared is still clear and no consume()
\* is yet to begin: nothing can set the flag again.
StoppedForGood ==
    /\ stopCalled
    /\ ~running
    /\ \A w \in Workers : wpc[w] # "idle"

\* Once the flag is clear and nothing is left to set it, every consume()
\* returns.
StoppedForGoodEndsConsume == StoppedForGood ~> AllReturned


\* The tasks retrieved so far, in the order they were retrieved.
RetrievedTasks == [i \in DOMAIN retrieved |-> retrieved[i].task]

\* The tasks put so far, in the order they were put.
PutTasks == [i \in 1..putCount |-> i]

\* Task n was handled this many times.
TimesHandled(n) == Cardinality({i \in DOMAIN handled : handled[i].task = n})

\* With any number of consumers on one queue, the tasks retrieved so far
\* followed by the tasks still queued are the tasks put, in the order they
\* were put, so each task is retrieved once, by one consumer; no task is
\* processed twice, and a task is processed by the consumer that retrieved it.
RetrievedOnceInOrder ==
    /\ RetrievedTasks \o wq = PutTasks
    /\ \A n \in 1..MaxTasks : TimesHandled(n) <= 1
    /\ \A i \in DOMAIN handled :
          \E j \in DOMAIN retrieved :
              retrieved[j].task = handled[i].task /\ retrieved[j].by = handled[i].by
    /\ \A w \in Workers : wtask[w] # 0 =>
          /\ wpc[w] = "proc"
          /\ \E j \in DOMAIN retrieved :
                retrieved[j].task = wtask[w] /\ retrieved[j].by = w
          /\ TimesHandled(wtask[w]) = 0

\* Consumer w's processing of its task has just raised an Exception.
ProcessRaised(w) ==
    /\ wpc[w] = "proc"
    /\ Len(handled') = Len(handled) + 1
    /\ handled'[Len(handled')].by = w
    /\ handled'[Len(handled')].outcome = "raise"

\* An Exception raised while processing a task is caught: the consumer is
\* back at the head of its loop, the running flag and the queue are as they
\* were, and the task is not put back.
RaiseKeepsLoop ==
    \A w \in Workers : ProcessRaised(w) =>
        /\ wpc'[w] = "loop"
        /\ running' = running
        /\ wq' = wq
        /\ retrieved' = retrieved

\* C35: with one or more consumers on the same queue, every task put is
\* retrieved by exactly one consumer exactly once, in the order the tasks were
\* put; an Exception raised while processing a task is caught, does not end
\* the consume loop, does not cause the task to be processed again and leaves
\* the later tasks to be retrieved and processed.
C35_TasksOnceInOrder ==
    /\ []RetrievedOnceInOrder
    /\ [][RaiseKeepsLoop]_vars

\* C35 witness: two consumers shared the queue; the first task's processing
\* raised, and the second task was processed afterwards by the consumer whose
\* processing had raised.
C35_Witness ==
    /\ Len(handled) = 2
    /\ handled[1].task = 1 /\ handled[1].outcome = "raise"
    /\ handled[2].task = 2 /\ handled[2].outcome = "ok"
    /\ handled[2].by = handled[1].by
    /\ \E w \in Workers : w # handled[1].by /\ wpc[w] \in Consuming


\* =========================================================== claims, graphs

\* C37: after any number of invocations of a patched graph with the same
\* config, the config's callbacks list holds the Trinetri callback at most
\* once, and in each invocation a framework start event reaches one Trinetri
\* callback, so it opens one registry span.
C37_CallbackOnce ==
    /\ \A c \in ConfigIds :
          Count(ConfigGet(c), TrinetriCallback) <= 1
    /\ \A i \in DOMAIN ginvs : ginvs[i].started = 1


\* Task n was put and has been handled.
Handled(n) == n <= putCount /\ TimesHandled(n) = 1

\* C39: a task that was retrieved and handled has been acknowledged with
\* task_done exactly once, whether its processing returned or raised; once
\* every task put has been handled, the queue counts no unfinished task.
C39_AckedOnce ==
    /\ \A n \in 1..MaxTasks : Handled(n) => acked[n] = 1
    /\ (\A n \in 1..putCount : Handled(n)) => unfinished = 0

\* Consumer w left consume() for a reason of its own: its task was cancelled,
\* or a KeyboardInterrupt reached it.
LeftLocally(w) == wpc[w] \in {"cancelled", "interrupted"}

\* C40: when one consumer has left consume() for a reason local to it and
\* stop() has not been called, the flag the other consumers test is still
\* set, and no other consumer has left its loop through the loop test.
C40_OthersKeepConsuming ==
    \A w \in Workers :
        (LeftLocally(w) /\ ~stopCalled) =>
            \A v \in Workers \ {w} :
                /\ wpc[v] # "returned"
                /\ wpc[v] \in Consuming => running

====
